---- MODULE Spec2Model ----
(***************************************************************************)
(* Streamlit chat page of src/Streamlit_appGemini.py: the session's        *)
(* message list, the script run that handles one submitted prompt, the     *)
(* blocking call to the generation endpoint, the decoding of its response  *)
(* and the except chain.                                                    *)
(*                                                                         *)
(* Python values are records tagged with their kind.  A str is a sequence  *)
(* of tokens, so that an f-string is the concatenation of its literal part *)
(* and of the values it embeds.                                            *)
(***************************************************************************)
EXTENDS Integers, Sequences, FiniteSets, TLC

\* Number of prompts one session submits.
MaxExchanges == 2

----------------------------------------------------------------------------
\* Python / JSON values

None == [kind |-> "null"]
Num(n) == [kind |-> "num", n |-> n]
Str(s) == [kind |-> "str", s |-> s]
List(items) == [kind |-> "list", items |-> items]
Dict(k, v) == [kind |-> "dict", keys |-> {k}, val |-> v]
EmptyDict == [kind |-> "dict", keys |-> {}, val |-> None]

\* bool(v)
Truthy(v) ==
    CASE v.kind = "null" -> FALSE
      [] v.kind = "num"  -> v.n # 0
      [] v.kind = "str"  -> v.s # <<>>
      [] v.kind = "list" -> v.items # <<>>
      [] v.kind = "dict" -> v.keys # {}

\* `key in v` and len(v) raise TypeError unless v is a str, a list or a dict.
Container(v) == v.kind \in {"str", "list", "dict"}

\* `key in v` for a container v: substring, member, key.
In(key, v) ==
    CASE v.kind = "str"  -> \E i \in 1..Len(v.s) : v.s[i] = key
      [] v.kind = "list" -> \E i \in 1..Len(v.items) : v.items[i] = Str(<<key>>)
      [] v.kind = "dict" -> key \in v.keys

\* len(v) for a container v.
PyLen(v) ==
    CASE v.kind = "str"  -> Len(v.s)
      [] v.kind = "list" -> Len(v.items)
      [] v.kind = "dict" -> Cardinality(v.keys)

\* v[key] with a str key raises unless v is a dict holding the key.
GetRaises(key, v) == v.kind # "dict" \/ key \notin v.keys

\* v[0] of a non-empty container: a dict has no key 0 (KeyError).
Item0Raises(v) == v.kind = "dict"

\* v[0] of a non-empty list or str; the first character of a str is a
\* one-character str, which contains none of the keys looked up.
Item0(v) == IF v.kind = "list" THEN v.items[1] ELSE Str(<<"?">>)

----------------------------------------------------------------------------
\* Turns and the wire request

Turn(role, text) == [role |-> role, parts |-> List(<<Dict("text", text)>>)]

TurnText(t) == t.parts.items[1].val

\* Line 29: 'model' is displayed as 'assistant'.
DisplayRole(role) == IF role = "model" THEN "assistant" ELSE role

\* Lines 32-35: what one stored message shows.
DisplayBody(t) ==
    IF Truthy(t.parts) /\ PyLen(t.parts) > 0 /\ In("text", t.parts.items[1])
    THEN t.parts.items[1].val
    ELSE Str(<<"*(Unable to display message content)*">>)

\* Lines 27-35: the chat messages drawn at the top of a script run.
Display(msgs) ==
    [i \in 1..Len(msgs) |-> [role |-> DisplayRole(msgs[i].role), body |-> DisplayBody(msgs[i])]]

\* The mapping of line 29 used in place of the one of line 53.
GeminiRoleSwapped(role) == IF role = "model" THEN "assistant" ELSE role

\* Line 53: 'assistant' is sent as 'model'.
GeminiRole(role) == IF role = "assistant" THEN "model" ELSE role

\* Lines 50-54: the history sent to the endpoint.
ChatHistoryForGemini(msgs) ==
    [i \in 1..Len(msgs) |-> [role |-> GeminiRole(msgs[i].role), parts |-> msgs[i].parts]]

\* Lines 60-62.
Payload(msgs) == [contents |-> ChatHistoryForGemini(msgs)]

NoPayload == [contents |-> <<>>]

----------------------------------------------------------------------------
\* State

VARIABLES
    initialised,   \* "messages" in st.session_state
    messages,      \* st.session_state.messages
    phase,         \* where the session is: Idle, AwaitingResponse, Rendered, ErrorRendered
    screen,        \* chat messages drawn by the current script run
    errors,        \* st.error banners of the current script run
    payload,       \* the request body built by the current script run
    net,           \* how the call of the current script run resolved
    calls,         \* requests.post calls of the current script run
    base,          \* len(messages) when the current script run started
    log,           \* the exchanges completed so far
    jsonErrorClass \* the class response.json() raises on a body that is no JSON

vars == <<initialised, messages, phase, screen, errors, payload, net, calls, base, log, jsonErrorClass>>

\* The prompts a user types.
Prompts == {Str(<<"hello">>), Str(<<"bye">>)}

\* response.json() raises requests.exceptions.JSONDecodeError (requests >= 2.27,
\* a RequestException and a json.JSONDecodeError), json.JSONDecodeError (older
\* requests) or simplejson's JSONDecodeError (older requests with simplejson
\* installed, a ValueError only).
JsonErrorClasses == {"requests.JSONDecodeError", "json.JSONDecodeError", "simplejson.JSONDecodeError"}

NoCall == [kind |-> "none"]

Init ==
    /\ initialised = FALSE
    /\ messages = <<>>
    /\ phase = "Idle"
    /\ screen = <<>>
    /\ errors = <<>>
    /\ payload = NoPayload
    /\ net = NoCall
    /\ calls = 0
    /\ base = 0
    /\ log = <<>>
    /\ jsonErrorClass \in JsonErrorClasses

\* Lines 22-24 without the membership test: every run starts from an empty list.
LoadMessagesReset == <<>>

\* Lines 22-24: the list is created only when the session has none.
LoadMessages == IF initialised THEN messages ELSE <<>>

\* A script run without a prompt (page load, or any rerun): lines 22-40.
Rerun ==
    /\ phase = "Idle"
    /\ initialised' = TRUE
    /\ messages' = LoadMessages
    /\ screen' = Display(LoadMessages)
    /\ errors' = <<>>
    /\ payload' = NoPayload
    /\ net' = NoCall
    /\ calls' = 0
    /\ base' = Len(LoadMessages)
    /\ UNCHANGED <<phase, log, jsonErrorClass>>

\* A script run with a prompt, up to the blocking call: lines 22-62.
Submit(prompt) ==
    /\ phase = "Idle"
    /\ initialised
    /\ Len(log) < MaxExchanges
    /\ initialised' = TRUE
    /\ messages' = Append(LoadMessages, Turn("user", prompt))
    /\ screen' = Append(Display(LoadMessages), [role |-> "user", body |-> prompt])
    /\ errors' = <<>>
    /\ payload' = Payload(messages')
    /\ net' = NoCall
    /\ calls' = 0
    /\ base' = Len(LoadMessages)
    /\ phase' = "AwaitingResponse"
    /\ UNCHANGED <<log, jsonErrorClass>>

----------------------------------------------------------------------------
\* Exceptions and the except chain

Exc(cls, msg) == [cls |-> cls, msg |-> msg]
NoExc == Exc("none", "")

\* The classes requests.exceptions.RequestException covers.
IsRequestException(cls) ==
    cls \in {"ConnectionError", "Timeout", "HTTPError", "requests.JSONDecodeError"}

\* The classes json.JSONDecodeError covers.
IsJSONDecodeError(cls) ==
    cls \in {"requests.JSONDecodeError", "json.JSONDecodeError"}

\* The classes Exception covers: every class raised in the try block.
IsException(cls) ==
    cls \in {"ConnectionError", "Timeout", "HTTPError", "requests.JSONDecodeError",
             "json.JSONDecodeError", "simplejson.JSONDecodeError",
             "TypeError", "KeyError", "Exception"}

\* The except chain without its last clause (lines 97-99).
HandlerOfNoGeneric(e) ==
    IF IsRequestException(e.cls) THEN "RequestException"
    ELSE IF IsJSONDecodeError(e.cls) THEN "JSONDecodeError"
    ELSE "none"

\* Lines 91, 94, 97: the first except clause, in order, that covers the class.
HandlerOf(e) ==
    IF IsRequestException(e.cls) THEN "RequestException"
    ELSE IF IsJSONDecodeError(e.cls) THEN "JSONDecodeError"
    ELSE IF IsException(e.cls) THEN "Exception"
    ELSE "none"

Banner(fmt, arg) == [fmt |-> fmt, arg |-> arg]

\* Lines 92, 95, 98: the st.error banner of the handler.
HandlerBanner(e) ==
    CASE HandlerOf(e) = "RequestException" ->
            Banner("Error communicating with Gemini API: ", Str(<<e.msg>>))
      [] HandlerOf(e) = "JSONDecodeError" ->
            Banner("Failed to parse JSON response from Gemini API.", Str(<<>>))
      [] HandlerOf(e) = "Exception" ->
            Banner("An unexpected error occurred: ", Str(<<e.msg>>))

\* Lines 93, 96, 99: the text of the turn the handler stores.
HandlerText(e) ==
    CASE HandlerOf(e) = "RequestException" ->
            Str(<<"Error: Could not connect to the API. ", e.msg>>)
      [] HandlerOf(e) = "JSONDecodeError" ->
            Str(<<"Error: Failed to parse API response.">>)
      [] HandlerOf(e) = "Exception" ->
            Str(<<"An unexpected error occurred: ", e.msg>>)

----------------------------------------------------------------------------
\* Lines 72-83: from the decoded response to the reply text

DefaultText == Str(<<"Sorry, I could not get a response.">>)

Got(text, banners) == [exc |-> NoExc, text |-> text, banners |-> banners]
Raised(cls, msg) == [exc |-> Exc(cls, msg), text |-> DefaultText, banners |-> <<>>]

MissingText == Banner("Gemini API response part missing 'text'.", Str(<<>>))
MissingParts == Banner("Gemini API response content or parts missing.", Str(<<>>))
Unexpected(result) == Banner("Unexpected Gemini API response structure: ", result)

\* Lines 76-79, for part = candidate["content"]["parts"][0].
ProcessPart(part) ==
    IF ~Container(part) THEN Raised("TypeError", "not iterable")
    ELSE IF ~In("text", part) THEN Got(DefaultText, <<MissingText>>)
    ELSE IF GetRaises("text", part) THEN Raised("TypeError", "indices must be integers")
    ELSE Got(part.val, <<>>)

\* Lines 75-81.
ProcessCandidate(candidate) ==
    IF ~Container(candidate) THEN Raised("TypeError", "not iterable")
    ELSE IF ~In("content", candidate) THEN Got(DefaultText, <<MissingParts>>)
    ELSE IF GetRaises("content", candidate) THEN Raised("TypeError", "indices must be integers")
    ELSE IF ~Container(candidate.val) THEN Raised("TypeError", "not iterable")
    ELSE IF ~In("parts", candidate.val) THEN Got(DefaultText, <<MissingParts>>)
    ELSE IF GetRaises("parts", candidate.val) THEN Raised("TypeError", "indices must be integers")
    ELSE IF ~Container(candidate.val.val) THEN Raised("TypeError", "has no len()")
    ELSE IF PyLen(candidate.val.val) = 0 THEN Got(DefaultText, <<MissingParts>>)
    ELSE IF Item0Raises(candidate.val.val) THEN Raised("KeyError", "0")
    ELSE ProcessPart(Item0(candidate.val.val))

\* Lines 72-83.
ProcessResult(result) ==
    IF ~Truthy(result) THEN Got(DefaultText, <<Unexpected(result)>>)
    ELSE IF ~Container(result) THEN Raised("TypeError", "not iterable")
    ELSE IF ~In("candidates", result) THEN Got(DefaultText, <<Unexpected(result)>>)
    ELSE IF GetRaises("candidates", result) THEN Raised("TypeError", "indices must be integers")
    ELSE IF ~Container(result.val) THEN Raised("TypeError", "has no len()")
    ELSE IF PyLen(result.val) = 0 THEN Got(DefaultText, <<Unexpected(result)>>)
    ELSE IF Item0Raises(result.val) THEN Raised("KeyError", "0")
    ELSE ProcessCandidate(Item0(result.val))

----------------------------------------------------------------------------
\* The endpoint

\* What requests.post raises when no response arrives.
TransportErrors == {Exc("ConnectionError", "connection refused"), Exc("Timeout", "timed out")}

\* Line 67 left out: no status is an error.
StatusNeverRaises(status) == FALSE

\* Line 67: raise_for_status raises HTTPError for 400 <= status < 600.
StatusRaises(status) == 400 <= status /\ status < 600

HttpError(status) ==
    Exc("HTTPError", IF status < 500 THEN "Client Error" ELSE "Server Error")

Replies == {Str(<<"r1">>), Str(<<"r2">>)}

\* {"candidates": [{"content": {"parts": [{"text": text}]}}]}
ValidResult(text) ==
    Dict("candidates", List(<<Dict("content", Dict("parts", List(<<Dict("text", text)>>)))>>))

PartValues == {Dict("text", r) : r \in Replies} \cup {EmptyDict, None}
PartsValues == {List(<<p>>) : p \in PartValues} \cup {List(<<>>), None}
ContentValues == {Dict("parts", ps) : ps \in PartsValues} \cup {EmptyDict, None}
CandidateValues == {Dict("content", c) : c \in ContentValues} \cup {EmptyDict, None}
CandidatesValues == {List(<<c>>) : c \in CandidateValues} \cup {List(<<>>), None, Dict("0", EmptyDict)}
ResultValues ==
    {Dict("candidates", cs) : cs \in CandidatesValues}
        \cup {EmptyDict, None, Num(5), Dict("error", Str(<<"quota">>))}

NotJson == [json |-> FALSE, value |-> None]
Json(v) == [json |-> TRUE, value |-> v]

Response(status, body) == [kind |-> "response", status |-> status, body |-> body]
Failure(e) == [kind |-> "failure", e |-> e]

\* The responses the endpoint gives: any body with a success status, and a few
\* bodies with each error status.
Responses ==
    {Response(200, b) : b \in {NotJson} \cup {Json(v) : v \in ResultValues}}
        \cup {Response(s, b) : s \in {404, 500},
                               b \in {NotJson, Json(ValidResult(Str(<<"r1">>))), Json(EmptyDict)}}

\* What st.chat_message / st.markdown of lines 88-89 raise when they fail.
\* They are the only UI calls of the try block that follow a store.  The UI
\* calls outside the try block (lines 30-35, 45-46) and inside the handlers
\* (lines 92, 95, 98) are taken to succeed, and only subclasses of Exception
\* are raised.
RenderError == Exc("Exception", "render failed")

\* Lines 66-89 for a response: the turns stored, the banners surfaced, the
\* chat messages drawn, and the exception that leaves the try block, if any.
TryBlock(resp, jsonCls, renders) ==
    LET r == ProcessResult(resp.body.value)
        none == [stored |-> <<>>, banners |-> <<>>, drawn |-> <<>>]
    IN  IF StatusRaises(resp.status) THEN none @@ [exc |-> HttpError(resp.status)]
        ELSE IF ~resp.body.json THEN none @@ [exc |-> Exc(jsonCls, "Expecting value")]
        ELSE IF r.exc # NoExc THEN none @@ [exc |-> r.exc]
        ELSE [stored |-> <<Turn("model", r.text)>>,
              banners |-> r.banners,
              drawn |-> IF renders THEN <<[role |-> "assistant", body |-> r.text]>> ELSE <<>>,
              exc |-> IF renders THEN NoExc ELSE RenderError]

\* Lines 91-99: the handler's banner and turn, for the exception e.
Handle(t) ==
    IF t.exc = NoExc \/ HandlerOf(t.exc) = "none" THEN t
    ELSE [t EXCEPT !.stored = Append(@, Turn("model", HandlerText(t.exc))),
                   !.banners = Append(@, HandlerBanner(t.exc))]

\* The phase a script run ends in.
PhaseAfter(t) ==
    IF t.exc = NoExc THEN "Rendered"
    ELSE IF HandlerOf(t.exc) = "none" THEN "Aborted"
    ELSE "ErrorRendered"

\* Lines 64-99 with one retry: a first failure sends the request again.
ResolveRetry(resolution, t) ==
    /\ phase = "AwaitingResponse"
    /\ calls' = calls + 1
    /\ IF t.exc # NoExc /\ calls = 0
       THEN UNCHANGED <<net, messages, errors, screen, phase>>
       ELSE /\ net' = resolution
            /\ messages' = messages \o Handle(t).stored
            /\ errors' = errors \o Handle(t).banners
            /\ screen' = screen \o t.drawn
            /\ phase' = PhaseAfter(t)
    /\ UNCHANGED <<initialised, payload, base, log, jsonErrorClass>>

\* Lines 64-99 once the call has resolved into the outcome t of the try block.
Resolve(resolution, t) ==
    /\ phase = "AwaitingResponse"
    /\ calls' = calls + 1
    /\ net' = resolution
    /\ messages' = messages \o Handle(t).stored
    /\ errors' = errors \o Handle(t).banners
    /\ screen' = screen \o t.drawn
    /\ phase' = PhaseAfter(t)
    /\ UNCHANGED <<initialised, payload, base, log, jsonErrorClass>>

\* requests.post raises: no response.
PostFails(e) ==
    Resolve(Failure(e), [stored |-> <<>>, banners |-> <<>>, drawn |-> <<>>, exc |-> e])

\* requests.post returns a response.
PostReturns(resp, renders) ==
    Resolve(resp, TryBlock(resp, jsonErrorClass, renders))

\* Whether the response is a valid single-candidate response.
IsValid(resolution) ==
    /\ resolution.kind = "response"
    /\ ~StatusRaises(resolution.status)
    /\ \E r \in Replies : resolution.body = Json(ValidResult(r))

\* The script run ends; the page waits for the next interaction.
Finish ==
    /\ phase \in {"Rendered", "ErrorRendered", "Aborted"}
    /\ phase' = "Idle"
    /\ log' = Append(log, [prompt |-> TurnText(messages[base + 1]),
                           valid |-> IsValid(net),
                           reply |-> IF IsValid(net)
                                     THEN ProcessResult(net.body.value).text
                                     ELSE None])
    /\ payload' = NoPayload
    /\ net' = NoCall
    /\ calls' = 0
    /\ UNCHANGED <<initialised, messages, screen, errors, base, jsonErrorClass>>

Next ==
    \/ Rerun
    \/ \E prompt \in Prompts : Submit(prompt)
    \/ \E e \in TransportErrors : PostFails(e)
    \/ \E resp \in Responses, renders \in BOOLEAN : PostReturns(resp, renders)
    \/ Finish

Spec == Init /\ [][Next]_vars

----------------------------------------------------------------------------
\* Liveness: the script run is synchronous, so once the call resolves the
\* run goes on to its end without waiting for anything else.

Resolution ==
    \/ \E e \in TransportErrors : PostFails(e)
    \/ \E resp \in Responses, renders \in BOOLEAN : PostReturns(resp, renders)

LiveSpec == Spec /\ WF_vars(Resolution) /\ WF_vars(Finish)

----------------------------------------------------------------------------
\* The request builder on stores that also hold turns of role 'assistant'

\* Turns per store the request builder is applied to.
MaxStore == 2

StoredTurns == {Turn(role, text) : role \in {"user", "assistant", "model"},
                                   text \in {Str(<<"hello">>), Str(<<"r1">>)}}

Stores == UNION {[1..n -> StoredTurns] : n \in 0..MaxStore}

WireInit ==
    /\ initialised = TRUE
    /\ messages \in Stores
    /\ phase = "Idle"
    /\ screen = <<>>
    /\ errors = <<>>
    /\ payload = NoPayload
    /\ net = NoCall
    /\ calls = 0
    /\ base = Len(messages)
    /\ log = <<>>
    /\ jsonErrorClass = "requests.JSONDecodeError"

WireNext ==
    \/ Rerun
    \/ \E prompt \in Prompts : Submit(prompt)

WireSpec == WireInit /\ [][WireNext]_vars

----------------------------------------------------------------------------
\* Properties

Ended == phase \in {"Rendered", "ErrorRendered"}

IsPrefix(s, t) == Len(s) <= Len(t) /\ SubSeq(t, 1, Len(s)) = s

\* C1: every exchange, whatever the outcome of the call, of the decoding and
\* of the rest of the try block, grows the message list by exactly 2: the
\* user turn, then one turn of role model.
C1_GrowsByTwo ==
    Ended =>
        /\ Len(messages) = base + 2
        /\ messages[base + 1].role = "user"
        /\ messages[base + 2].role = "model"

\* C2: after N exchanges that all got a valid single-candidate response, the
\* list holds exactly 2N turns: prompt i at 2i-1 as user, reply i at 2i as model.
C2_ValidRunsAlternate ==
    (phase = "Idle" /\ \A i \in 1..Len(log) : log[i].valid) =>
        /\ Len(messages) = 2 * Len(log)
        /\ \A i \in 1..Len(log) :
              /\ messages[2 * i - 1] = Turn("user", log[i].prompt)
              /\ messages[2 * i] = Turn("model", log[i].reply)

\* C3: the message list is append-only: every step leaves the previous list
\* as a prefix of the new one, reruns and error paths included.
C3_AppendOnly == [][IsPrefix(messages, messages')]_vars

C3_Witness ==
    /\ phase = "ErrorRendered"
    /\ base >= 2
    /\ messages[base + 1].role = "user"

\* C4: the request built from a list of K turns has K entries in the list's
\* order, role assistant sent as model and any other role unchanged, parts
\* unchanged; building it adds the user turn to the list and changes nothing else.
C4_WireRequest ==
    [][(phase = "Idle" /\ phase' = "AwaitingResponse") =>
          /\ IsPrefix(messages, messages') /\ Len(messages') = Len(messages) + 1
          /\ Len(payload'.contents) = Len(messages')
          /\ \A i \in 1..Len(messages') :
                /\ payload'.contents[i].role =
                      (IF messages'[i].role = "assistant" THEN "model" ELSE messages'[i].role)
                /\ payload'.contents[i].parts = messages'[i].parts]_vars

C4_Witness ==
    /\ phase = "AwaitingResponse"
    /\ Len(messages) = 3
    /\ messages[1].role = "assistant" /\ payload.contents[1].role = "model"
    /\ messages[2].role = "model" /\ payload.contents[2].role = "model"
    /\ payload.contents[3] = [role |-> "user", parts |-> messages[3].parts]

\* C5: a response with a 4xx/5xx status ends like a transport failure whatever
\* its body: the user turn stays, exactly one model turn follows whose text is
\* the transport-error text with the error message, and the same message is
\* the one banner surfaced.
C5_HttpErrorIsTransportFailure ==
    (Ended /\ net.kind = "response" /\ net.status >= 400) =>
        /\ phase = "ErrorRendered"
        /\ Len(messages) = base + 2
        /\ messages[base + 1].role = "user"
        /\ \E e \in {Exc("HTTPError", "Client Error"), Exc("HTTPError", "Server Error")} :
              /\ messages[base + 2] =
                    Turn("model", Str(<<"Error: Could not connect to the API. ", e.msg>>))
              /\ errors = <<Banner("Error communicating with Gemini API: ", Str(<<e.msg>>))>>

C5_Witness ==
    /\ phase = "ErrorRendered"
    /\ net = Response(500, Json(ValidResult(Str(<<"r1">>))))
    /\ TurnText(messages[base + 2]) = Str(<<"Error: Could not connect to the API. ", "Server Error">>)

\* C6: a success status with a body that is no JSON ends with the model turn
\* whose text is the fixed decode-error text.
C6_DecodeErrorText ==
    (Ended /\ net.kind = "response" /\ net.status < 400 /\ ~net.body.json) =>
        /\ Len(messages) = base + 2
        /\ TurnText(messages[base + 2]) = Str(<<"Error: Failed to parse API response.">>)

\* The results of the expected shape: candidates[0].content.parts[0].text is there.
Shaped(v) ==
    \E p \in PartValues : p.kind = "dict" /\ "text" \in p.keys /\ v = ValidResult(p.val)

\* C7: a JSON response without the expected shape ends with the model turn
\* whose text is the placeholder, and with exactly one banner.
C7_ShapeErrorPlaceholder ==
    (Ended /\ net.kind = "response" /\ net.status < 400 /\ net.body.json
           /\ ~Shaped(net.body.value)) =>
        /\ Len(messages) = base + 2
        /\ TurnText(messages[base + 2]) = Str(<<"Sorry, I could not get a response.">>)
        /\ Len(errors) = 1

\* C8: an exchange goes Idle -> AwaitingResponse -> Rendered or ErrorRendered
\* -> Idle with exactly one call, made after the user turn is stored and
\* before any model turn is.
C8_OneCallPerExchange ==
    /\ [](phase = "AwaitingResponse" =>
            calls = 0 /\ Len(messages) = base + 1 /\ messages[base + 1].role = "user")
    /\ [](Ended => calls = 1 /\ Len(messages) >= base + 2 /\ messages[base + 2].role = "model")
    /\ [][/\ phase = "Idle" => phase' \in {"Idle", "AwaitingResponse"}
          /\ phase = "AwaitingResponse" => phase' \in {"Rendered", "ErrorRendered"}
          /\ Ended => phase' = "Idle"
          /\ calls' # calls => (phase = "AwaitingResponse" \/ calls' = 0)]_vars

C8_Witness ==
    /\ phase = "ErrorRendered"
    /\ calls = 1
    /\ net.kind = "failure"
    /\ Len(log) = 1

C10_RequestAlternates ==
    phase = "AwaitingResponse" =>
        /\ Len(payload.contents) = 2 * Len(log) + 1
        /\ \A i \in 1..Len(payload.contents) :
              payload.contents[i].role = (IF i % 2 = 1 THEN "user" ELSE "model")
        /\ TurnText(payload.contents[Len(payload.contents)]) = screen[Len(screen)].body

====
